---- MODULE Spec2Model ----
(***************************************************************************)
(* A model of src/src/cpi_calculator/calculator.py: the CPICalculator      *)
(* (its two CPI computations) and run(), the pipeline around it.           *)
(*                                                                         *)
(* Numbers.  Prices are small naturals.  A weight w stands for w/10.  A    *)
(* float is kept in fixed point: a category index in units of 1/10000, a   *)
(* weighted sum in units of 1/100000, a rounded CPI in units of 1/10000.   *)
(* log(a/b) is kept exactly, as the ratio <<a, b>> it is the logarithm of; *)
(* a mean of n logarithms is the product of the ratios together with n;    *)
(* exp of it is the n-th root of that product.                             *)
(***************************************************************************)
EXTENDS Integers, Sequences, FiniteSets, TLC

\* ------------------------------------------------------------- bounds
\* Prices are 0 .. MaxPrice; a price table with any layout has at most MaxRows rows.
MaxPrice == 2
MaxRows == 3

\* The calendar, the product ids, the category ids and the weights (in tenths)
\* the tables are drawn from.
Days == 0 .. 2
ProductIds == {1, 2}
CategoryIds == {1, 2}
WeightVals == {4, 6, 10}

\* --------------------------------------------------- program constants
RootSentinel == -1
NaN == -2
Decimals == 4
WeightScale == 10

\* ------------------------------------------------------------ state
VARIABLES
    db,               \* the store: [categories, products, prices], sets of rows
    start_date, end_date,
    pc,               \* position of the client / of run()
    categories,       \* self.categories
    products,         \* self.products
    leaf_categories,  \* the leaf rows the last CPI computation selected
    price_pivot,      \* compute_daily_cpi: the forward-filled pivot
    base_prices,      \* compute_daily_cpi: product -> base price
    valid_data,       \* compute_daily_cpi: date -> rows entering the ratio/log step
    daily_cpi,        \* the series compute_daily_cpi returned (date -> CPI)
    cpi_result,       \* what compute_cpi returned
    price_nullable,   \* whether prices.price is a Nullable column (seen by compute_cpi)
    raised,           \* the exception that left the last operation, "none" if none
    stdout,           \* the messages printed, in order
    chart_file        \* whether savefig has written the chart

vars == <<db, start_date, end_date, pc, categories, products, leaf_categories,
          price_pivot, base_prices, valid_data, daily_cpi, cpi_result,
          price_nullable, raised, stdout, chart_file>>

\* ------------------------------------------------------------ helpers
RECURSIVE Pow(_, _)
Pow(b, n) == IF n = 0 THEN 1 ELSE b * Pow(b, n - 1)

\* One unit of a category index is 1/IndexScale: the digits round(4) keeps.
IndexScale == Pow(10, Decimals)

\* The sum and the product of the values of a set of <<key, value>> pairs.
RECURSIVE SumOver(_)
SumOver(S) ==
    IF S = {} THEN 0
    ELSE LET x == CHOOSE y \in S : TRUE IN x[2] + SumOver(S \ {x})

RECURSIVE ProdOver(_)
ProdOver(S) ==
    IF S = {} THEN 1
    ELSE LET x == CHOOSE y \in S : TRUE IN x[2] * ProdOver(S \ {x})

Max(S) == CHOOSE x \in S : \A y \in S : y <= x

\* The largest x in lo..hi with x^n <= v (lo^n <= v is assumed).
RECURSIVE IRootSearch(_, _, _, _)
IRootSearch(v, n, lo, hi) ==
    IF lo >= hi THEN lo
    ELSE LET mid == (lo + hi + 1) \div 2 IN
         IF Pow(mid, n) <= v THEN IRootSearch(v, n, mid, hi)
         ELSE IRootSearch(v, n, lo, mid - 1)

IRoot(v, n) == IF n = 1 THEN v ELSE IRootSearch(v, n, 0, IndexScale * MaxPrice)

\* price_ratio = current_price / base_price, kept as the exact ratio.
PriceRatio(row) == <<row.current_price, row.base_price>>

\* np.log of a ratio: the ratio itself stands for its logarithm.
Log(ratio) == ratio

\* groupby(...)['log_ratio'].mean(): the mean of the logarithms of the rows.
MeanLog(rows) ==
    [num |-> ProdOver({<<r.product_id, Log(PriceRatio(r))[1]>> : r \in rows}),
     den |-> ProdOver({<<r.product_id, Log(PriceRatio(r))[2]>> : r \in rows}),
     n   |-> Cardinality(rows)]

\* np.exp of a mean of logarithms, in units of 1/IndexScale.
Exp(m) == IRoot((m.num * Pow(IndexScale, m.n)) \div m.den, m.n)

\* Series.round(4) of a weighted sum given in units of 1/(IndexScale*WeightScale).
Round4(x) == (x + (WeightScale \div 2)) \div WeightScale

\* ------------------------------------------------- the store's tables
\* _load_prices_for_dates: the price rows dated in date_tuple.
\* (variant: every row dated up to the last date of date_tuple)
LoadPricesMutUpTo(date_tuple) == {r \in db.prices : \E d \in date_tuple : r.date <= d}

LoadPricesForDates(date_tuple) == {r \in db.prices : r.date \in date_tuple}

\* pd.date_range(start_date, end_date, freq='D').date
DateRange(s, e) == {d \in Days : s <= d /\ d <= e}

\* pivot_table(index='product_id', columns='date', values='price',
\* aggfunc='first'): one row per product and one column per date that occur
\* in the data, NaN where the product has no row on the date.
PivotTable(price_data) ==
    LET idx  == {r.product_id : r \in price_data}
        cols == {r.date : r \in price_data}
    IN [index   |-> idx,
        columns |-> cols,
        val     |-> [p \in idx |-> [d \in cols |->
                       IF \E r \in price_data : r.product_id = p /\ r.date = d
                       THEN (CHOOSE r \in price_data :
                                r.product_id = p /\ r.date = d).price
                       ELSE NaN]]]

\* .ffill(axis=1): along the date columns, a NaN takes the last value before it.
FFill(pivot) ==
    [pivot EXCEPT !.val =
        [p \in pivot.index |-> [d \in pivot.columns |->
            LET seen == {c \in pivot.columns : c <= d /\ pivot.val[p][c] # NaN}
            IN IF seen = {} THEN NaN ELSE pivot.val[p][Max(seen)]]]]

\* price_pivot[start_date].rename('base_price')
\* (variant: the last column instead of the start column)
BasePricesMutLast(pivot, s) == [p \in pivot.index |-> pivot.val[p][Max(pivot.columns)]]

BasePrices(pivot, s) == [p \in pivot.index |-> pivot.val[p][s]]

\* self.categories[~category_id.isin(parent.dropna())][['category_id','weight']]
\* (variant: a category's own row is not looked at)
LeafCategoriesMutOther(cats) ==
    {[category_id |-> c.category_id, weight |-> c.weight] : c \in
        {c \in cats : c.category_id \notin
            {x.parent : x \in {y \in cats : y.parent # NaN
                                            /\ y.category_id # c.category_id}}}}

LeafCategories(cats) ==
    {[category_id |-> c.category_id, weight |-> c.weight] : c \in
        {c \in cats : c.category_id \notin
            {x.parent : x \in {y \in cats : y.parent # NaN}}}}

\* The leaf_categories CTE of compute_cpi:
\* category_id NOT IN (SELECT parent FROM categories WHERE parent != -1)
SqlLeafCategories(cats) ==
    {[category_id |-> c.category_id, weight |-> c.weight] : c \in
        {c \in cats : c.category_id \notin
            {x.parent : x \in {y \in cats : y.parent # NaN
                                            /\ y.parent # RootSentinel}}}}

\* products.merge(base_prices, left_on='product_id', right_index=True)
\*         .merge(leaf_categories, on='category_id')       (inner joins)
\* (variant: the join with leaf_categories is left out)
MergedDataMutLeftJoin(prods, base, leaf) ==
    {[product_id |-> p.product_id, category_id |-> p.category_id,
      base_price |-> base[p.product_id], weight |-> 0] :
        p \in {q \in prods : q.product_id \in DOMAIN base}}

MergedData(prods, base, leaf) ==
    {[product_id |-> p.product_id, category_id |-> p.category_id,
      base_price |-> base[p.product_id], weight |-> l.weight] :
        <<p, l>> \in {<<q, m>> \in prods \X leaf :
                        /\ q.product_id \in DOMAIN base
                        /\ q.category_id = m.category_id}}

\* merged_data.merge(current_prices, left_on='product_id', right_index=True)
DailyData(merged, pivot, d) ==
    {[product_id |-> m.product_id, category_id |-> m.category_id,
      base_price |-> m.base_price,
      current_price |-> pivot.val[m.product_id][d]] :
        m \in {x \in merged : x.product_id \in pivot.index}}

\* daily_data[(base_price > 0) & current_price.notnull()]
ValidData(daily) ==
    {r \in daily : r.base_price # NaN /\ r.base_price > 0 /\ r.current_price # NaN}

\* valid_data.groupby('category_id')['log_ratio'].mean().apply(np.exp)
\* (variant: the arithmetic mean of the ratios)
CategoryIndexMutArith(valid) ==
    [c \in {r.category_id : r \in valid} |->
        LET rows == {r \in valid : r.category_id = c}
        IN SumOver({<<r.product_id, (r.current_price * IndexScale) \div r.base_price>> :
                        r \in rows}) \div Cardinality(rows)]

CategoryIndex(valid) ==
    [c \in {r.category_id : r \in valid} |->
        Exp(MeanLog({r \in valid : r.category_id = c}))]

\* category_index.reset_index(name='price_index').merge(leaf, on='category_id');
\* (price_index * weight).sum()
WeightedSum(category_index, leaf) ==
    SumOver({<<l.category_id, category_index[l.category_id] * l.weight>> :
                l \in {m \in leaf : m.category_id \in DOMAIN category_index}})

\* The body of the loop of compute_daily_cpi for one date.
DailyValue(merged, pivot, leaf, d) ==
    WeightedSum(CategoryIndex(ValidData(DailyData(merged, pivot, d))), leaf)

\* ------------------------------------------------ compute_cpi's query
\* MAXIf(price, cond): the greatest price among the rows the condition keeps;
\* over no row, NULL for a Nullable column and the type's default, 0, otherwise.
MaxIf(rows, nullable) ==
    IF rows = {} THEN (IF nullable THEN NaN ELSE 0)
    ELSE Max({r.price : r \in rows})

\* The price_data CTE: per product with a row on start or end, its two prices.
SqlPriceData(s, e, nullable) ==
    LET rows == {r \in db.prices : r.date \in {s, e}}
    IN {[product_id   |-> p,
         base_price   |-> MaxIf({r \in rows : r.product_id = p /\ r.date = s}, nullable),
         report_price |-> MaxIf({r \in rows : r.product_id = p /\ r.date = e}, nullable)] :
            p \in {r.product_id : r \in rows}}

\* The rows category_cpi aggregates: products JOIN price_data JOIN leaf_categories
\* WHERE base_price > 0 AND report_price IS NOT NULL.
SqlJoined(s, e, nullable, leaf) ==
    {[product_id |-> x[1].product_id, category_id |-> x[1].category_id,
      base_price |-> x[2].base_price, current_price |-> x[2].report_price] :
        x \in {y \in db.products \X SqlPriceData(s, e, nullable) :
                /\ y[1].product_id = y[2].product_id
                /\ \E l \in leaf : l.category_id = y[1].category_id
                /\ y[2].base_price # NaN /\ y[2].base_price > 0
                /\ y[2].report_price # NaN}}

\* The whole query: SUM(price_index * weight) over category_cpi JOIN leaf_categories,
\* in units of 1/(IndexScale*WeightScale); NaN stands for NULL / None.
SqlCpi(s, e, nullable) ==
    LET leaf   == SqlLeafCategories(db.categories)
        joined == SqlJoined(s, e, nullable, leaf)
    IN IF joined = {} THEN (IF nullable THEN NaN ELSE 0)
       ELSE WeightedSum(CategoryIndex(joined), leaf)

\* ------------------------------------------------------------ run()
\* except Exception: print("流程异常终止"); raise  -- after the messages the
\* failing step had printed before it failed.
\* (variant: the handler prints and does not re-raise)
AbortMutNoReraise(kind, printed) ==
    /\ pc' = "aborted"
    /\ raised' = "none"
    /\ stdout' = stdout \o printed \o <<"abort">>

Abort(kind, printed) ==
    /\ pc' = "aborted"
    /\ raised' = kind
    /\ stdout' = stdout \o printed \o <<"abort">>

\* ------------------------------------------------------------ Init
Cells == ProductIds \X Days

CatTable(par, w) ==
    {[category_id |-> c, parent |-> par[c], weight |-> w[c]] : c \in CategoryIds}

ProdTable(m) == {[product_id |-> p, category_id |-> m[p]] : p \in ProductIds}

\* f[cell] = NaN: no row for the cell.
PriceTable(f) ==
    {[product_id |-> c[1], date |-> c[2], price |-> f[c]] :
        c \in {x \in Cells : f[x] # NaN}}

\* Any price table of at most MaxRows rows, with two category layouts.
InitPrices ==
    \E par \in {[c \in CategoryIds |-> RootSentinel],
                [c \in CategoryIds |-> IF c = 1 THEN RootSentinel ELSE 1]},
       m \in {[p \in ProductIds |-> p], [p \in ProductIds |-> 1]},
       f \in [Cells -> (0 .. MaxPrice) \cup {NaN}] :
        /\ Cardinality({x \in Cells : f[x] # NaN}) <= MaxRows
        /\ db = [categories |-> CatTable(par, [c \in CategoryIds |-> IF c = 1 THEN 6 ELSE 4]),
                 products   |-> ProdTable(m),
                 prices     |-> PriceTable(f)]
        /\ \E s \in Days, e \in Days :
              s <= e /\ start_date = s /\ end_date = e

\* Any category and product table, with every product priced 1 on day 0 and
\* priced on day 1.
InitCategories ==
    \E par \in [CategoryIds -> CategoryIds \cup {RootSentinel, NaN}],
       w \in [CategoryIds -> WeightVals],
       m \in [ProductIds -> CategoryIds],
       f \in [Cells -> (1 .. MaxPrice) \cup {NaN}] :
        /\ \A x \in Cells : ((f[x] = NaN) <=> (x[2] > 1)) /\ (x[2] = 0 => f[x] = 1)
        /\ db = [categories |-> CatTable(par, w),
                 products   |-> ProdTable(m),
                 prices     |-> PriceTable(f)]
        /\ start_date = 0 /\ end_date = 1

Init ==
    /\ InitPrices \/ InitCategories
    /\ pc = "start"
    /\ categories = {} /\ products = {}
    /\ leaf_categories = {}
    /\ price_pivot = [index |-> {}, columns |-> {}, val |-> << >>]
    /\ base_prices = << >>
    /\ valid_data = << >>
    /\ daily_cpi = << >>
    /\ cpi_result = NaN
    /\ price_nullable = FALSE
    /\ raised = "none"
    /\ stdout = << >>
    /\ chart_file = FALSE

\* ------------------------------------------------------------ actions
\* run, up to the construction of the calculator: settings.from_env,
\* CPICalculator.__init__ (connect, _load_categories, _load_products).
Construct ==
    /\ pc = "start"
    /\ \E ok \in BOOLEAN :
        IF ok
        THEN /\ categories' = db.categories
             /\ products' = db.products
             /\ stdout' = Append(stdout, "started")
             /\ pc' = "constructed"
             /\ UNCHANGED raised
        ELSE /\ Abort("ConnectError", <<"started">>)
             /\ UNCHANGED <<categories, products>>
    /\ UNCHANGED <<db, start_date, end_date, leaf_categories, price_pivot,
                   base_prices, valid_data, daily_cpi, cpi_result,
                   price_nullable, chart_file>>

\* compute_cpi: the single query, inside try/except Exception.
\* (variant: no handler, the failure leaves compute_cpi)
ComputeCpiMutNoCatch ==
    /\ pc = "constructed"
    /\ \E ok \in BOOLEAN, nullable \in BOOLEAN :
        /\ price_nullable' = nullable
        /\ leaf_categories' = SqlLeafCategories(db.categories)
        /\ IF ok
           THEN /\ cpi_result' = SqlCpi(start_date, end_date, nullable)
                /\ pc' = "single"
                /\ UNCHANGED <<raised, stdout>>
           ELSE /\ cpi_result' = NaN
                /\ pc' = "single"
                /\ raised' = "QueryError"
                /\ UNCHANGED stdout
    /\ UNCHANGED <<db, start_date, end_date, categories, products, price_pivot,
                   base_prices, valid_data, daily_cpi, chart_file>>

ComputeCpi ==
    /\ pc = "constructed"
    /\ \E ok \in BOOLEAN, nullable \in BOOLEAN :
        /\ price_nullable' = nullable
        /\ leaf_categories' = SqlLeafCategories(db.categories)
        /\ IF ok
           THEN /\ cpi_result' = SqlCpi(start_date, end_date, nullable)
                /\ pc' = "single"
                /\ UNCHANGED <<raised, stdout>>
           ELSE /\ cpi_result' = NaN
                /\ pc' = "single"
                /\ stdout' = Append(stdout, "sql_failed")
                /\ UNCHANGED raised
    /\ UNCHANGED <<db, start_date, end_date, categories, products, price_pivot,
                   base_prices, valid_data, daily_cpi, chart_file>>

\* The dates the loop of compute_daily_cpi gets through: those before the first
\* date that is no column of the pivot (price_pivot[current_date] raises KeyError).
Processed(pivot, all_dates) ==
    {d \in all_dates : \A c \in all_dates : c <= d => c \in pivot.columns}

\* compute_daily_cpi, called by run inside its try.
ComputeDailyCpi ==
    /\ pc = "constructed"
    /\ \E ok \in BOOLEAN :
        LET leaf      == LeafCategories(categories)
            all_dates == DateRange(start_date, end_date)
            pivot     == FFill(PivotTable(LoadPricesForDates(all_dates)))
            base      == BasePrices(pivot, start_date)
            merged    == MergedData(products, base, leaf)
            done      == Processed(pivot, all_dates)
        IN /\ leaf_categories' = leaf
           /\ IF ~ok
              THEN /\ Abort("QueryError", << >>)
                   /\ UNCHANGED <<price_pivot, base_prices, valid_data, daily_cpi>>
              ELSE /\ price_pivot' = pivot
                   /\ IF start_date \notin pivot.columns
                      THEN /\ Abort("KeyError", << >>)
                           /\ UNCHANGED <<base_prices, valid_data, daily_cpi>>
                      ELSE /\ base_prices' = base
                           /\ valid_data' =
                                [d \in done |-> ValidData(DailyData(merged, pivot, d))]
                           /\ IF done # all_dates
                              THEN /\ Abort("KeyError", << >>)
                                   /\ UNCHANGED daily_cpi
                              ELSE /\ daily_cpi' =
                                        [d \in all_dates |->
                                            Round4(DailyValue(merged, pivot, leaf, d))]
                                   /\ pc' = "computed"
                                   /\ UNCHANGED <<raised, stdout>>
    /\ UNCHANGED <<db, start_date, end_date, categories, products, cpi_result,
                   price_nullable, chart_file>>

\* plot_cpi_trend up to and including plt.savefig and its message.
PlotSave ==
    /\ pc = "computed"
    /\ \E ok \in BOOLEAN :
        IF ok
        THEN /\ chart_file' = TRUE
             /\ stdout' = stdout \o <<"report", "saved">>
             /\ pc' = "saved"
             /\ UNCHANGED raised
        ELSE /\ Abort("SaveError", <<"report">>)
             /\ UNCHANGED chart_file
    /\ UNCHANGED <<db, start_date, end_date, categories, products, leaf_categories,
                   price_pivot, base_prices, valid_data, daily_cpi, cpi_result,
                   price_nullable>>

\* plt.show(), then run's success message.
PlotShow ==
    /\ pc = "saved"
    /\ \E ok \in BOOLEAN :
        IF ok
        THEN /\ stdout' = Append(stdout, "success")
             /\ pc' = "done"
             /\ UNCHANGED raised
        ELSE Abort("ShowError", << >>)
    /\ UNCHANGED <<db, start_date, end_date, categories, products, leaf_categories,
                   price_pivot, base_prices, valid_data, daily_cpi, cpi_result,
                   price_nullable, chart_file>>

Next == Construct \/ ComputeCpi \/ ComputeDailyCpi \/ PlotSave \/ PlotShow

Spec == Init /\ [][Next]_vars

\* ============================================================ claims
\* The vocabulary of the claims, read off the store's tables alone.
HasObs(p, d) == \E r \in db.prices : r.product_id = p /\ r.date = d

\* The price p is observed at on d, NaN when it has no row dated d.
Obs(p, d) ==
    IF HasObs(p, d)
    THEN (CHOOSE r \in db.prices : r.product_id = p /\ r.date = d).price
    ELSE NaN

\* The most recent observation of p on a date of lo..hi, NaN when there is none.
LastObs(p, lo, hi) ==
    LET ds == {d \in Days : lo <= d /\ d <= hi /\ HasObs(p, d)}
    IN IF ds = {} THEN NaN ELSE Obs(p, Max(ds))

Range == {d \in Days : start_date <= d /\ d <= end_date}

\* The categories no category row names as parent (their own row included).
UnreferencedIds ==
    {c.category_id : c \in {x \in db.categories :
        \A y \in db.categories : y.parent # x.category_id}}

\* The categories no other category row names as parent.
UnreferencedByOthersIds ==
    {c.category_id : c \in {x \in db.categories :
        \A y \in db.categories :
            y.category_id # x.category_id => y.parent # x.category_id}}

WeightOf(c) == (CHOOSE x \in db.categories : x.category_id = c).weight

\* The products of leaf category c that survive: priced above 0 on start.
Survivors(c) ==
    {p.product_id : p \in {q \in db.products :
        /\ q.category_id = c
        /\ HasObs(q.product_id, start_date)
        /\ Obs(q.product_id, start_date) > 0}}

\* The geometric mean of current/base over the survivors ps on date T.
GeoMean(ps, T) ==
    IRoot((ProdOver({<<p, LastObs(p, start_date, T)>> : p \in ps})
             * Pow(IndexScale, Cardinality(ps)))
          \div ProdOver({<<p, Obs(p, start_date)>> : p \in ps}),
          Cardinality(ps))

ExpectedCpi(T) ==
    Round4(SumOver({<<c, GeoMean(Survivors(c), T) * WeightOf(c)>> :
                      c \in {x \in UnreferencedIds : Survivors(x) # {}}}))

\* compute_daily_cpi has returned its series.
Returned == daily_cpi # << >>

\* The price query of compute_daily_cpi has succeeded and the call has ended.
QuerySucceeded ==
    \/ pc \in {"computed", "saved", "done"}
    \/ pc = "aborted" /\ raised \in {"KeyError", "SaveError", "ShowError"}

\* C1: every value of the returned series is, rounded to 4 decimals, the sum
\* over the leaf categories with a surviving product of geometric mean times
\* weight; the weight of a leaf category without one is dropped, not renormalized.
C1_WeightedGeometricMean ==
    Returned => \A T \in Range : daily_cpi[T] = ExpectedCpi(T)

\* A weight 0.6 with 1 -> 2, B weight 0.4 with 1 -> 1: 1.0 on day 0, 1.6 on day 1.
C1_Witness ==
    /\ Returned
    /\ db.categories = {[category_id |-> 1, parent |-> RootSentinel, weight |-> 6],
                        [category_id |-> 2, parent |-> RootSentinel, weight |-> 4]}
    /\ db.products = {[product_id |-> 1, category_id |-> 1],
                      [product_id |-> 2, category_id |-> 2]}
    /\ start_date = 0 /\ end_date = 1
    /\ Obs(1, 0) = 1 /\ Obs(1, 1) = 2 /\ Obs(2, 0) = 1 /\ Obs(2, 1) = 1
    /\ daily_cpi[0] = 10000 /\ daily_cpi[1] = 16000

\* C2: whenever the price query succeeds, compute_daily_cpi returns a series
\* with one value for every date of [start, end], whatever dates have rows.
C2_SeriesForEveryDate ==
    QuerySucceeded => Returned /\ DOMAIN daily_cpi = Range

\* C3: for every date T of [start, end] and every product observed on a date
\* of [start, T], the current price used at T is its most recent such observation.
C3_ForwardFill ==
    QuerySucceeded =>
        \A T \in Range : \A p \in ProductIds :
            LastObs(p, start_date, T) # NaN =>
                /\ T \in DOMAIN valid_data
                /\ p \in price_pivot.index
                /\ price_pivot.val[p][T] = LastObs(p, start_date, T)

\* The base prices of compute_daily_cpi have been determined.
BaseDetermined == base_prices # << >>

Excluded(p) == p \notin DOMAIN base_prices \/ base_prices[p] = NaN

\* C4 as stated: the base price is the most recent observation on or before
\* start, and a product lacks one only when it has no such observation.
C4_BaseCarriedFromBeforeStart ==
    BaseDetermined =>
        \A p \in ProductIds :
            IF LastObs(p, 0, start_date) # NaN
            THEN ~Excluded(p) /\ base_prices[p] = LastObs(p, 0, start_date)
            ELSE Excluded(p)

\* C4, amended: the base price is the observation dated exactly start; a product
\* without one has no base price, whatever it has before start; and when no
\* product has one the computation raises.
C4_BaseIsStartObservation ==
    /\ BaseDetermined =>
        \A p \in ProductIds :
            IF HasObs(p, start_date)
            THEN ~Excluded(p) /\ base_prices[p] = Obs(p, start_date)
            ELSE Excluded(p)
    /\ (QuerySucceeded /\ \A p \in ProductIds : ~HasObs(p, start_date)) =>
            raised = "KeyError" /\ ~BaseDetermined

C4_Witness ==
    /\ BaseDetermined
    /\ \E p \in ProductIds :
        /\ ~HasObs(p, start_date)
        /\ LastObs(p, 0, start_date) # NaN
        /\ LastObs(p, start_date, end_date) # NaN
        /\ p \in DOMAIN base_prices /\ base_prices[p] = NaN

LeafWeightsSumToOne ==
    SumOver({<<c, WeightOf(c)>> : c \in UnreferencedIds}) = WeightScale

FullCoverage ==
    \A p \in db.products : \A d \in Range : HasObs(p.product_id, d)

\* C5 as stated: leaf weights summing to 1 and full price coverage give 1.0 on start.
C5_StartIsOne ==
    (Returned /\ LeafWeightsSumToOne /\ FullCoverage) =>
        daily_cpi[start_date] = IndexScale

\* C5, amended: ... and every leaf category has a product priced above 0 on start.
C5_StartIsOneWhenEveryLeafSurvives ==
    (Returned /\ LeafWeightsSumToOne /\ FullCoverage
        /\ \A c \in UnreferencedIds : Survivors(c) # {}) =>
        daily_cpi[start_date] = IndexScale

C5_Witness ==
    /\ Returned /\ LeafWeightsSumToOne /\ FullCoverage
    /\ \A c \in UnreferencedIds : Survivors(c) # {}
    /\ start_date < end_date
    /\ \E p \in db.products :
          Obs(p.product_id, start_date) # Obs(p.product_id, end_date)
    /\ daily_cpi[start_date] = IndexScale
    /\ daily_cpi[end_date] # IndexScale

\* C6: on every date the loop handles, the products entering the ratio/log step
\* are exactly those mapped to a leaf category, priced above 0 on start, with a
\* current price; none of them has a base price of 0 or none.
C6_OnlyPositiveBaseEnters ==
    \A T \in DOMAIN valid_data :
        /\ {r.product_id : r \in valid_data[T]} =
              {p.product_id : p \in {q \in db.products :
                  /\ q.category_id \in UnreferencedIds
                  /\ HasObs(q.product_id, start_date)
                  /\ Obs(q.product_id, start_date) > 0
                  /\ LastObs(q.product_id, start_date, T) # NaN}}
        /\ \A r \in valid_data[T] :
              r.base_price # NaN /\ r.base_price > 0 /\ r.current_price # NaN

\* A leaf product priced 0 on start stays out while another one enters.
C6_Witness ==
    \E T \in DOMAIN valid_data :
        /\ valid_data[T] # {}
        /\ \E p \in db.products :
              /\ p.category_id \in UnreferencedIds
              /\ HasObs(p.product_id, start_date)
              /\ Obs(p.product_id, start_date) = 0
              /\ \A r \in valid_data[T] : r.product_id # p.product_id

SqlFailed == pc = "single" /\ Len(stdout) > 0 /\ stdout[Len(stdout)] = "sql_failed"

\* C7: a failure of compute_cpi's query never leaves compute_cpi, which logs it
\* and returns None; the same failure of compute_daily_cpi's query leaves it,
\* and no series is returned.
C7_FailureSemantics ==
    /\ pc = "single" => raised = "none"
    /\ SqlFailed => cpi_result = NaN
    /\ raised = "QueryError" => pc = "aborted" /\ ~Returned

C7_Witness == SqlFailed /\ cpi_result = NaN /\ raised = "none"

LastMessage == IF stdout = << >> THEN "" ELSE stdout[Len(stdout)]

\* C8 as stated: a failing step gives the abort message, the exception re-raised
\* and no chart file; the chart file exists only after the success message.
C8_NoChartOnFailure ==
    /\ pc = "aborted" =>
          LastMessage = "abort" /\ raised # "none" /\ ~chart_file
    /\ (chart_file /\ pc \in {"done", "aborted"}) => LastMessage = "success"

\* C8, amended: a failing step gives the abort message and the exception
\* re-raised; the chart file is written exactly when savefig has returned,
\* which is so after a failure of the display and in no other failed run.
C8_ChartOnlyAfterSave ==
    /\ pc = "aborted" =>
          /\ LastMessage = "abort" /\ raised # "none"
          /\ chart_file <=> raised = "ShowError"
    /\ pc = "done" => chart_file /\ LastMessage = "success" /\ raised = "none"
    /\ chart_file => pc \in {"saved", "done", "aborted"}

C8_Witness == pc = "aborted" /\ raised = "ShowError" /\ chart_file

\* A CPI computation has selected its leaf categories.
LeafDetermined ==
    \/ pc \in {"single", "computed", "saved", "done"}
    \/ pc = "aborted" /\ raised # "ConnectError"

LeafRows(ids) ==
    {[category_id |-> c.category_id, weight |-> c.weight] :
        c \in {x \in db.categories : x.category_id \in ids}}

\* C9 as stated: the leaf set is the categories no other category names as parent.
C9_LeafIffNoOtherNamesIt ==
    LeafDetermined => leaf_categories = LeafRows(UnreferencedByOthersIds)

\* C9, amended: the leaf set is the categories no category row, their own
\* included, names as parent; both computations select it.
C9_LeafIffNoRowNamesIt ==
    LeafDetermined => leaf_categories = LeafRows(UnreferencedIds)

C9_Witness ==
    /\ LeafDetermined
    /\ \E c \in db.categories : c.parent = c.category_id
    /\ \E c \in db.categories : c.parent = RootSentinel
    /\ leaf_categories # {}
    /\ leaf_categories # LeafRows(UnreferencedByOthersIds)

\* The products of c with a row on start, priced above 0, and a row on end.
ExactSurvivors(c) ==
    {p.product_id : p \in {q \in db.products :
        /\ q.category_id = c
        /\ HasObs(q.product_id, start_date)
        /\ Obs(q.product_id, start_date) > 0
        /\ HasObs(q.product_id, end_date)}}

ExactGeoMean(ps) ==
    IRoot((ProdOver({<<p, Obs(p, end_date)>> : p \in ps})
             * Pow(IndexScale, Cardinality(ps)))
          \div ProdOver({<<p, Obs(p, start_date)>> : p \in ps}),
          Cardinality(ps))

\* C10: compute_cpi's result is made of the products with a row on start and a
\* row on end alone; a product lacking either is left out of its category's mean.
C10_ExactMatchOnly ==
    (pc = "single" /\ ~SqlFailed) =>
        LET cs == {c \in UnreferencedIds : ExactSurvivors(c) # {}}
        IN IF cs = {} THEN cpi_result \in {0, NaN}
           ELSE cpi_result =
                  SumOver({<<c, ExactGeoMean(ExactSurvivors(c)) * WeightOf(c)>> : c \in cs})

====
